---- MODULE Spec2Model ----
(***************************************************************************)
(* A model of the commander package (github.com/pborman/commander): the   *)
(* Command tree, Run / RunSubcommands / runsub / parse, Lookup, the       *)
(* OnError policy step, Help and PrintUsage.                               *)
(*                                                                         *)
(* A call of the package is one action: the whole call, with every nested *)
(* call it makes, is computed by the operators below, which thread a      *)
(* machine record m (the mutable fields of every Command plus the log of  *)
(* what the call did) the way the Go code threads its receivers.          *)
(*                                                                         *)
(* The option parser (github.com/pborman/flags on top of the standard     *)
(* flag package) is an external collaborator; it is modelled by what the  *)
(* standard flag package does on the tokens used here.  Description and   *)
(* Help texts are static strings that no modelled decision reads; they    *)
(* are left out of the rendered help.                                     *)
(***************************************************************************)
EXTENDS Integers, Sequences, FiniteSets, TLC

\* ------------------------------------------------------------- bounds
\* Longest argument vector handed to a top-level call.
MaxLen == 2
\* Largest MinArgs / MaxArgs a command is configured with (SpecArgs).
MaxLimit == 2

\* ---------------------------------------------------------- constants
NoArgs == -1

NIL == "<nil>"
Undef == "<undef>"

\* ------------------------------------------------- the command graph
\* main -> {foo, bar, help}, bar -> {foo}: foo is shared by two parents.
Nodes == {"main", "bar", "foo", "help"}

\* Go's string order on the Names used (sort.Strings, sort.Slice with <).
NameRank == [n \in Nodes |-> CASE n = "bar" -> 1 [] n = "foo" -> 2
                               [] n = "help" -> 3 [] n = "main" -> 4]

\* SubCommands as declared (the order of the literals, not sorted).
InitSubCommands == [n \in Nodes |-> CASE n = "main" -> <<"foo", "bar", "help">>
                                      [] n = "bar" -> <<"foo">>
                                      [] OTHER -> <<>>]

\* An options struct: nil, or the value of each field it declares.
NilOpts == [nil |-> TRUE, name |-> Undef, value |-> Undef]
Opts(name, value) == [nil |-> FALSE, name |-> name, value |-> value]

\* Flags is given for main (name) and bar (value), both persistent;
\* Defaults for foo (name).
InitFlags == [n \in Nodes |-> CASE n = "main" -> Opts("", Undef)
                                [] n = "bar" -> Opts(Undef, "17")
                                [] OTHER -> NilOpts]
InitDefaults == [n \in Nodes |-> IF n = "foo" THEN Opts("myname", Undef) ELSE NilOpts]

\* The Parameters field ("" when unset).
Parameters == [n \in Nodes |-> IF n = "bar" THEN "WORD ..." ELSE ""]

\* The Func field: none, or which function it is.
FuncOf == [n \in Nodes |-> CASE n = "main" -> NIL
                             [] n = "bar" -> "barFunc"
                             [] n = "foo" -> "fooFunc"
                             [] n = "help" -> "Help"]

InitMinArgs == [n \in Nodes |-> IF n = "foo" THEN 1 ELSE 0]
InitMaxArgs == [n \in Nodes |-> IF n = "foo" THEN 1 ELSE 0]

\* Stderr is set on main only; everything else inherits or uses the global.
InitStderr == [n \in Nodes |-> IF n = "main" THEN "mainbuf" ELSE NIL]
GlobalStderr == "stderr"

\* The values OnError takes: unset, the two built-in policies, and a
\* handler that returns the error unchanged.
Handlers == {NIL, "ExitOnError", "ContinueOnError", "Ident"}
\* The commands whose OnError is assigned between calls.
PolicyNodes == {"main", "bar"}

\* ------------------------------------------------------------- tokens
Tokens == {"bar", "foo", "help", "fatal", "--name=a"}
ArgVectors == UNION {[1..n -> Tokens] : n \in 0..MaxLen}

\* What the flag package sees in a token: a flag starts with '-'.
IsFlag(t) == t = "--name=a"
FlagName(t) == IF t = "--name=a" THEN "name" ELSE ""
FlagValue(t) == IF t = "--name=a" THEN "a" ELSE ""

VARIABLES parent, Flags, Defaults, SubCommands, Stderr, OnError,
          MinArgs, MaxArgs, halted, last

vars == <<parent, Flags, Defaults, SubCommands, Stderr, OnError,
          MinArgs, MaxArgs, halted, last>>

\* ------------------------------------------------------------- errors
NoErr == [kind |-> "nil", C |-> NIL, msg |-> ""]
UsageError(c, msg) == [kind |-> "usage", C |-> c, msg |-> msg]
ExecError(msg) == [kind |-> "exec", C |-> NIL, msg |-> msg]

\* One entry of the log of a call.
Ev(ev, c, args, err, s, t) ==
    [ev |-> ev, c |-> c, args |-> args, err |-> err, s |-> s, t |-> t, by |-> ""]

\* The entry of a write of text to the writer w by the code named by.
WriteEv(c, w, by, text) ==
    [ev |-> "write", c |-> c, args |-> <<>>, err |-> NoErr, s |-> w, t |-> text,
     by |-> by]

Log(m, e) == [m EXCEPT !.log = Append(@, e)]

\* Command.Command: the space-joined names along the parent chain.
RECURSIVE Command(_, _)
Command(m, c) ==
    IF m.parent[c] # NIL THEN Command(m, m.parent[c]) \o " " \o c ELSE c

\* UsageError.Error, and the message of any other error.
ErrorString(m, e) ==
    IF e.kind = "usage"
    THEN IF e.msg # "" THEN Command(m, e.C) \o ": " \o e.msg
                       ELSE Command(m, e.C) \o ": incorrect usage"
    ELSE e.msg

\* Command.stderr: the first Stderr set along the parent chain.
RECURSIVE stderr(_, _)
stderr(m, c) ==
    IF c = NIL THEN GlobalStderr
    ELSE IF m.Stderr[c] # NIL THEN m.Stderr[c]
    ELSE stderr(m, m.parent[c])

\* Command.printf; by names the code that writes.
printf(m, c, by, text) ==
    Log(m, WriteEv(c, stderr(m, c), by, text))

\* A write to an explicit io.Writer w.
fprintf(m, w, c, by, text) ==
    Log(m, WriteEv(c, w, by, text))

\* strings.Join(elems, sep)
RECURSIVE Join(_, _)
Join(elems, sep) ==
    IF elems = <<>> THEN ""
    ELSE IF Len(elems) = 1 THEN elems[1]
    ELSE elems[1] \o sep \o Join(Tail(elems), sep)

\* sort by Name: insertion of x into a sorted sequence, then the sort.
RECURSIVE Insert(_, _)
Insert(x, s) ==
    IF s = <<>> THEN <<x>>
    ELSE IF NameRank[x] < NameRank[Head(s)] THEN <<x>> \o s
    ELSE <<Head(s)>> \o Insert(x, Tail(s))

RECURSIVE SortNames(_)
SortNames(s) == IF s = <<>> THEN <<>> ELSE Insert(Head(s), SortNames(Tail(s)))

\* Mutant: the names in the order of SubCommands, not sorted.
subCommands_Unsorted(m, c) == m.SubCommands[c]

\* Command.subCommands: the sorted names of the children (a copy).
subCommands(m, c) == SortNames(m.SubCommands[c])

\* Command.findSub: the first child with that Name.
RECURSIVE FirstNamed(_, _)
FirstNamed(s, name) ==
    IF s = <<>> THEN NIL
    ELSE IF Head(s) = name THEN Head(s)
    ELSE FirstNamed(Tail(s), name)

findSub(m, c, name) == FirstNamed(m.SubCommands[c], name)

\* Command.getFlags
getFlags(m, c) == IF ~m.Flags[c].nil THEN m.Flags[c] ELSE m.Defaults[c]

\* flags.Lookup(opts, name): the field's value, nil when there is none.
flagsLookup(opts, name) ==
    IF opts.nil THEN NIL
    ELSE IF name = "name" /\ opts.name # Undef THEN opts.name
    ELSE IF name = "value" /\ opts.value # Undef THEN opts.value
    ELSE NIL

\* Mutant: the command's own options are consulted whatever cmd is.
LookupHere_IgnoreCmd(m, c, cmd, name) == flagsLookup(m.Flags[c], name)

\* What Lookup finds at c itself: the flag's value when cmd is empty or
\* names c, nil otherwise.
LookupHere(m, c, cmd, name) ==
    IF cmd = "" \/ cmd = c THEN flagsLookup(m.Flags[c], name) ELSE NIL

\* Command.Lookup
RECURSIVE Lookup(_, _, _, _)
Lookup(m, c, cmd, name) ==
    IF c = NIL THEN NIL
    ELSE IF LookupHere(m, c, cmd, name) # NIL THEN LookupHere(m, c, cmd, name)
    ELSE Lookup(m, m.parent[c], cmd, name)

\* Command.onError: the command whose OnError applies to err, NIL for none.
RECURSIVE FirstPolicy(_, _)
FirstPolicy(m, c) ==
    IF c = NIL THEN NIL
    ELSE IF OnError[c] # NIL THEN c
    ELSE FirstPolicy(m, m.parent[c])

\* Mutant: only the command's own OnError is considered.
onError_Self(m, c, err) ==
    IF err.kind = "nil" \/ OnError[c] = NIL THEN NIL ELSE c

\* Mutant: only a UsageError is handed to a handler.
onError_UsageOnly(m, c, err) ==
    IF err.kind # "usage" THEN NIL ELSE FirstPolicy(m, c)

onError(m, c, err) == IF err.kind = "nil" THEN NIL ELSE FirstPolicy(m, c)

\* Command.parameters.  The builder holds " arg0 arg1 ... [...]"; the
\* result is that string without its first byte, and slicing the empty
\* string from 1 is a run-time panic.
ArgWords(n) == [i \in 1..n |-> "arg" \o ToString(i - 1)]

parameters(c) ==
    IF Parameters[c] # "" THEN [panic |-> FALSE, s |-> Parameters[c]]
    ELSE IF MaxArgs[c] = NoArgs THEN [panic |-> FALSE, s |-> ""]
    ELSE LET n == IF MinArgs[c] > 0 THEN MinArgs[c] ELSE 0
             words == ArgWords(n) \o
                      (IF MaxArgs[c] = 0 \/ MaxArgs[c] < MinArgs[c]
                       THEN <<"...">> ELSE <<>>)
         IN IF words = <<>> THEN [panic |-> TRUE, s |-> ""]
            ELSE [panic |-> FALSE, s |-> Join(words, " ")]

\* flags.UsageLine(name, parameters, opts), without the option summary.
UsageLine(name, params) == IF params = "" THEN name ELSE name \o " " \o params

\* ---------------------------------------------------------------- Help
\* The walk of Help down its args: the command reached, or the error.
RECURSIVE HelpDescend(_, _, _, _)
HelpDescend(m, c, command, names) ==
    IF names = <<>> THEN [c |-> c, err |-> NoErr]
    ELSE IF Len(m.SubCommands[c]) = 0
         THEN [c |-> c, err |-> ExecError(command \o " has no subcommands")]
    ELSE IF findSub(m, c, Head(names)) = NIL
         THEN [c |-> c, err |-> ExecError(command \o " has no subcommand " \o Head(names))]
    ELSE HelpDescend(m, findSub(m, c, Head(names)),
                     command \o " " \o Head(names), Tail(names))

\* flags.Help(w, "", "", c.getFlags()): the option help, when there are options.
flagsHelp(m, w, c, by) ==
    IF getFlags(m, c).nil THEN m ELSE fprintf(m, w, c, by, "options of " \o c)

\* The loop of Help over the children of branch c: one usage line each.
RECURSIVE HelpChildren(_, _, _, _)
HelpChildren(m, c, by, kids) ==
    IF kids = <<>> THEN [m |-> m, ctl |-> "ret"]
    ELSE LET sc == Head(kids)
             p == parameters(sc)
             ps == IF p.s = "" /\ Len(m.SubCommands[sc]) > 0
                   THEN "subcommand [...]" ELSE p.s
         IN IF p.panic THEN [m |-> m, ctl |-> "panic"]
            ELSE HelpChildren(printf(m, c, by, "  " \o UsageLine(sc, ps)),
                              c, by, Tail(kids))

\* What Help does once it has chosen the command to start from.
HelpFrom(m, c, start, args, by) ==
    LET w == stderr(m, c)
        d == HelpDescend(m, start, start, args)
        t == d.c
        m0 == Log(m, Ev("help", t, args, d.err, c, by))
    IN IF d.err.kind # "nil" THEN [m |-> m0, err |-> d.err, ctl |-> "ret"]
       ELSE IF Len(m.SubCommands[t]) = 0
       THEN IF parameters(t).panic
            THEN [m |-> m0, err |-> NoErr, ctl |-> "panic"]
            ELSE [m |-> flagsHelp(printf(m0, t, by,
                                         "Usage: " \o UsageLine(t, parameters(t).s)),
                                  w, t, by),
                  err |-> NoErr, ctl |-> "ret"]
       ELSE LET m1 == printf(m0, t, by, "Usage: " \o UsageLine(t, "subcommand [...]"))
                m2 == flagsHelp(m1, w, t, by)
                m3 == [m2 EXCEPT !.SubCommands[t] = SortNames(@)]
                m4 == printf(m3, t, by, "Available sub commands:")
                k == HelpChildren(m4, t, by, m4.SubCommands[t])
            IN [m |-> k.m, err |-> NoErr, ctl |-> k.ctl]

\* Mutant: a command that has children is where Help starts.
HelpStart_BranchSelf(m, c) ==
    IF m.SubCommands[c] # <<>> THEN c
    ELSE IF m.parent[c] # NIL THEN m.parent[c] ELSE c

\* The command Help starts from.
HelpStart(m, c) == IF m.parent[c] # NIL THEN m.parent[c] ELSE c

\* Help(ctx, c, args)
Help(m, c, args, by) == HelpFrom(m, c, HelpStart(m, c), args, by)

\* Command.PrintUsage(w)
RECURSIVE UsageChildren(_, _, _, _)
UsageChildren(m, w, c, kids) ==
    IF kids = <<>> THEN m
    ELSE UsageChildren(fprintf(m, w, c, "PrintUsage", "   " \o Head(kids)),
                       w, c, Tail(kids))

PrintUsage(m, c, w) ==
    IF Len(m.SubCommands[c]) > 0
    THEN UsageChildren(
             fprintf(fprintf(m, w, c, "PrintUsage",
                             "Usage: " \o UsageLine(c, "subcommand ...")),
                     w, c, "PrintUsage", "Known sub commands:"),
             w, c, m.SubCommands[c])
    ELSE fprintf(m, w, c, "PrintUsage", "Usage: " \o UsageLine(c, ""))

\* --------------------------------------------------------------- parse
\* set.Parse(args) of the standard flag package on the options opts: flags
\* are consumed up to the first token that is not a flag; a flag the
\* options do not declare is an error.
FlagDefined(opts, t) ==
    ~opts.nil /\ FlagName(t) = "name" /\ opts.name # Undef

RECURSIVE ParseFlags(_, _)
ParseFlags(opts, args) ==
    IF args = <<>> \/ ~IsFlag(Head(args))
    THEN [opts |-> opts, rest |-> args, err |-> ""]
    ELSE IF FlagDefined(opts, Head(args))
    THEN ParseFlags([opts EXCEPT !.name = FlagValue(Head(args))], Tail(args))
    ELSE [opts |-> opts, rest |-> args,
          err |-> "flag provided but not defined: -" \o FlagName(Head(args))]

\* Mutant: Flags is also parsed into a fresh copy, of its declared value.
BindFlags_AlwaysFresh(m, c) ==
    IF ~m.Defaults[c].nil THEN [m EXCEPT !.Flags[c] = m.Defaults[c]]
    ELSE [m EXCEPT !.Flags[c] = InitFlags[c]]

\* Mutant: Defaults is copied only while Flags is still nil.
BindFlags_CopyOnce(m, c) ==
    IF ~m.Defaults[c].nil /\ m.Flags[c].nil
    THEN [m EXCEPT !.Flags[c] = m.Defaults[c]] ELSE m

\* The options parse parses into: a fresh copy of Defaults when Defaults
\* is set (flags.RegisterNew), else Flags itself (flags.RegisterSet).
BindFlags(m, c) ==
    IF ~m.Defaults[c].nil THEN [m EXCEPT !.Flags[c] = m.Defaults[c]] ELSE m

\* The argument-count checks of parse, on the tokens left: the cause of
\* the UsageError, "" when the count is accepted.
CheckCount(c, n) ==
    IF MaxArgs[c] = NoArgs /\ n # 0 THEN "takes no arguments"
    ELSE IF n < MinArgs[c]
         THEN "requires at least " \o ToString(MinArgs[c]) \o " arguments"
    ELSE IF MaxArgs[c] > 0 /\ n > MaxArgs[c]
         THEN "takes no more than " \o ToString(MaxArgs[c]) \o " arguments"
    ELSE ""

\* Command.parse.  Stderr is pointed at a scratch buffer for the length of
\* the call and restored by the deferred function, on every way out.
parse(m, c, args) ==
    LET hasSet == ~m.Defaults[c].nil \/ ~m.Flags[c].nil
        oStderr == m.Stderr[c]
        m1 == BindFlags(m, c)
        m2 == [m1 EXCEPT !.Stderr[c] = "buf"]
        f == ParseFlags(m2.Flags[c], args)
        m3 == IF hasSet THEN [m2 EXCEPT !.Flags[c] = f.opts] ELSE m2
        rest == IF hasSet THEN f.rest ELSE args
        w == stderr(m3, c)
        cause == CheckCount(c, Len(rest))
    IN IF hasSet /\ f.err # ""
       THEN LET m4 == fprintf(m3, w, c, "flag", f.err)
            IN IF parameters(c).panic
               THEN [m |-> [m4 EXCEPT !.Stderr[c] = oStderr], args |-> args,
                     err |-> NoErr, ctl |-> "panic"]
               ELSE [m |-> [fprintf(m4, w, c, "flag",
                                    "Usage: " \o UsageLine(c, parameters(c).s))
                            EXCEPT !.Stderr[c] = oStderr],
                     args |-> args, err |-> UsageError(c, f.err), ctl |-> "ret"]
       ELSE [m |-> [m3 EXCEPT !.Stderr[c] = oStderr], args |-> rest,
             err |-> IF cause = "" THEN NoErr ELSE UsageError(c, cause),
             ctl |-> "ret"]

\* ------------------------------------------------- the OnError policies
\* os.Exit ends the process: nothing runs after it, deferred calls included.
Exit(m, c, status) == Log(m, Ev("exit", c, <<>>, NoErr, status, ""))

ExitOnError(m, c, args, err) ==
    [m |-> Exit(printf(m, c, "OnError", ErrorString(m, err)), c, "1"),
     err |-> NoErr, ctl |-> "exit"]

\* Mutant: the error is displayed and handed back.
ContinueOnError_KeepErr(m, c, args, err) ==
    [m |-> printf(m, c, "OnError", ErrorString(m, err)),
     err |-> err, ctl |-> "ret"]

ContinueOnError(m, c, args, err) ==
    [m |-> printf(m, c, "OnError", ErrorString(m, err)),
     err |-> NoErr, ctl |-> "ret"]

\* The handler the tests install: it hands the error back.
Ident(m, c, args, err) == [m |-> m, err |-> err, ctl |-> "ret"]

CallHandler(h, m, c, args, err) ==
    CASE h = "ExitOnError" -> ExitOnError(m, c, args, err)
      [] h = "ContinueOnError" -> ContinueOnError(m, c, args, err)
      [] OTHER -> Ident(m, c, args, err)

\* The call returns (or goes on panicking) with err.
Return_(c, r) == [r EXCEPT !.m = Log(r.m, Ev("return", c, <<>>, r.err, r.ctl, ""))]

\* The deferred function of Run and RunSubcommands.  args and err are the
\* function's variables as they stand when it returns or panics; a panic
\* keeps unwinding after the deferred function has run.
Finish(c, args, err, r) ==
    IF r.ctl = "exit" THEN r
    ELSE LET m1 == Log(r.m, Ev("defer", c, args, err, r.ctl, ""))
             o == onError(m1, c, err)
             h == CallHandler(OnError[o],
                              Log(m1, Ev("onerror", c, args, err, o, OnError[o])),
                              c, args, err)
         IN IF o = NIL
            THEN Return_(c, [m |-> m1, ctl |-> r.ctl,
                             err |-> IF r.ctl = "panic" THEN NoErr ELSE err])
            ELSE IF h.ctl = "exit" THEN h
            ELSE Return_(c, [m |-> h.m, ctl |-> r.ctl,
                             err |-> IF r.ctl = "panic" THEN NoErr ELSE h.err])

\* ------------------------------------------------ Run and RunSubcommands
RECURSIVE Run(_, _, _, _)

\* A descent that keeps the parent a command already has.
Descend_KeepFirst(m, c, sc) ==
    Log(IF m.parent[sc] = NIL THEN [m EXCEPT !.parent[sc] = c] ELSE m,
        Ev("descend", sc, <<>>, NoErr, c, ""))

\* runsub sets the child's parent at the moment it descends into it.
Descend(m, c, sc) ==
    Log([m EXCEPT !.parent[sc] = c], Ev("descend", sc, <<>>, NoErr, c, ""))

\* Command.runsub
runsub(m, c, args) ==
    IF Len(args) < 1
    THEN [m |-> m, ctl |-> "ret",
          err |-> UsageError(c, "sub command required {"
                                   \o Join(subCommands(m, c), ", ") \o "}")]
    ELSE IF FirstNamed(m.SubCommands[c], Head(args)) # NIL
    THEN Run(Descend(m, c, FirstNamed(m.SubCommands[c], Head(args))),
             FirstNamed(m.SubCommands[c], Head(args)), Tail(args), "Run")
    ELSE [m |-> m, ctl |-> "ret",
          err |-> UsageError(c, Head(args) \o ": unknown command")]

\* The Func of a command.  Every Func here first looks at its options the
\* way subbarFunc does; fooFunc indexes args[0] and fails on "fatal";
\* barFunc runs the sub commands when it is given arguments.
Func(m, c, args) ==
    LET m1 == Log(m, Ev("func", c, args, NoErr,
                        Lookup(m, c, "", "name"), Lookup(m, c, "main", "name")))
    IN CASE FuncOf[c] = "fooFunc" ->
              IF args = <<>> THEN [m |-> m1, err |-> NoErr, ctl |-> "panic"]
              ELSE IF args[1] = "fatal"
                   THEN [m |-> m1, err |-> ExecError("fatal error"), ctl |-> "ret"]
              ELSE [m |-> m1, err |-> NoErr, ctl |-> "ret"]
         [] FuncOf[c] = "barFunc" ->
              IF Len(args) > 0 THEN Run(m1, c, args, "RunSubcommands")
              ELSE [m |-> m1, err |-> NoErr, ctl |-> "ret"]
         [] OTHER -> Help(m1, c, args, "Help")

\* What Run and RunSubcommands do when parse returns an error: print it,
\* and render help for the command of a UsageError.
ParseFailed(m, c, err) ==
    IF err.kind = "usage"
    THEN LET h == Help(printf(m, c, "Run", ErrorString(m, err)), err.C, <<>>, "auto")
         IN [m |-> h.m, err |-> err, ctl |-> h.ctl]
    ELSE [m |-> printf(m, c, "Run", ErrorString(m, err)), err |-> err, ctl |-> "ret"]

\* Mutant: an error of runsub is reported like an error of parse, with
\* the error line and the help of the command.
Dispatch_ReportAll(m, c, args, op) ==
    LET r == IF op = "RunSubcommands" THEN runsub(m, c, args)
             ELSE IF m.SubCommands[c] # <<>> /\ Len(args) > 0 THEN runsub(m, c, args)
             ELSE IF FuncOf[c] # NIL THEN Func(m, c, args)
             ELSE [m |-> m, err |-> NoErr, ctl |-> "ret"]
    IN IF r.ctl = "ret" /\ r.err.kind = "usage" /\ r.err.C = c
       THEN ParseFailed(r.m, c, r.err)
       ELSE r

\* Mutant: Func, when set, is called whatever tokens are left (the reading
\* "if they are both set only Func is called").
Dispatch_FuncFirst(m, c, args, op) ==
    IF op = "RunSubcommands" THEN runsub(m, c, args)
    ELSE IF FuncOf[c] # NIL THEN Func(m, c, args)
    ELSE IF m.SubCommands[c] # <<>> /\ Len(args) > 0 THEN runsub(m, c, args)
    ELSE [m |-> m, err |-> NoErr, ctl |-> "ret"]

\* What Run (op = "Run") and RunSubcommands do after a successful parse.
Dispatch(m, c, args, op) ==
    IF op = "RunSubcommands" THEN runsub(m, c, args)
    ELSE IF m.SubCommands[c] # <<>> /\ Len(args) > 0 THEN runsub(m, c, args)
    ELSE IF FuncOf[c] # NIL THEN Func(m, c, args)
    ELSE [m |-> m, err |-> NoErr, ctl |-> "ret"]

\* Command.Run and Command.RunSubcommands (op says which).
Run(m, c, args, op) ==
    LET p == parse(Log(m, Ev("enter", c, args, NoErr, op, "")), c, args)
        m1 == Log(p.m, Ev("parsed", c, p.args, p.err, op, ""))
    IN IF p.ctl = "panic"
       THEN Finish(c, args, NoErr, [m |-> p.m, err |-> NoErr, ctl |-> "panic"])
       ELSE IF p.err.kind # "nil"
       THEN Finish(c, p.args, p.err, ParseFailed(m1, c, p.err))
       ELSE LET r == Dispatch(m1, c, p.args, op)
            IN Finish(c, p.args, r.err, r)

\* ------------------------------------------------------------ the state
Machine == [parent |-> parent, Flags |-> Flags, Defaults |-> Defaults,
            SubCommands |-> SubCommands, Stderr |-> Stderr, log |-> <<>>]

\* last holds the call the caller has made and not yet looked at.
Idle == [op |-> "idle", c |-> NIL, args |-> <<>>, err |-> NoErr,
         ctl |-> "ret", log |-> <<>>, val |-> ""]

\* A caller may make a call when the process runs and no call is pending.
Ready == halted = "no" /\ last.op = "idle"

Init ==
    /\ parent = [n \in Nodes |-> NIL]
    /\ Flags = InitFlags
    /\ Defaults = InitDefaults
    /\ SubCommands = InitSubCommands
    /\ Stderr = InitStderr
    /\ OnError = [n \in Nodes |-> NIL]
    /\ MinArgs = InitMinArgs
    /\ MaxArgs = InitMaxArgs
    /\ halted = "no"
    /\ last = Idle

\* The state after a call that ended as r.
Commit(op, c, args, r, val) ==
    /\ parent' = r.m.parent
    /\ Flags' = r.m.Flags
    /\ Defaults' = r.m.Defaults
    /\ SubCommands' = r.m.SubCommands
    /\ Stderr' = r.m.Stderr
    /\ halted' = IF r.ctl = "ret" THEN "no" ELSE r.ctl
    /\ last' = [op |-> op, c |-> c, args |-> args, err |-> r.err,
                ctl |-> r.ctl, log |-> r.m.log, val |-> val]
    /\ UNCHANGED <<OnError, MinArgs, MaxArgs>>

\* A caller runs c.Run(ctx, args).
DoRun(c, args) ==
    /\ Ready
    /\ Commit("Run", c, args, Run(Machine, c, args, "Run"), "")

\* A caller runs c.RunSubcommands(ctx, args).
DoRunSubcommands(c, args) ==
    /\ Ready
    /\ Commit("RunSubcommands", c, args, Run(Machine, c, args, "RunSubcommands"), "")

\* A caller calls Help(ctx, c, args).
DoHelp(c, args) ==
    /\ Ready
    /\ Commit("Help", c, args, Help(Machine, c, args, "Help"), "")

\* A caller calls c.PrintUsage(w).
DoPrintUsage(c) ==
    /\ Ready
    /\ Commit("PrintUsage", c, <<>>,
              [m |-> PrintUsage(Machine, c, "w"), err |-> NoErr, ctl |-> "ret"], "")

\* A caller calls c.Lookup(cmd, name).
DoLookup(c, cmd, name) ==
    /\ Ready
    /\ Commit("Lookup", c, <<cmd, name>>,
              [m |-> Machine, err |-> NoErr, ctl |-> "ret"],
              Lookup(Machine, c, cmd, name))

\* The program assigns c.OnError between calls.
SetOnError(c, h) ==
    /\ Ready
    /\ OnError[c] # h
    /\ OnError' = [OnError EXCEPT ![c] = h]
    /\ UNCHANGED <<parent, Flags, Defaults, SubCommands, Stderr, MinArgs, MaxArgs,
                   halted, last>>

\* The program assigns c.MinArgs and c.MaxArgs between calls.
SetLimits(c, lo, hi) ==
    /\ Ready
    /\ <<MinArgs[c], MaxArgs[c]>> # <<lo, hi>>
    /\ MinArgs' = [MinArgs EXCEPT ![c] = lo]
    /\ MaxArgs' = [MaxArgs EXCEPT ![c] = hi]
    /\ UNCHANGED <<parent, Flags, Defaults, SubCommands, Stderr, OnError, halted, last>>

\* The caller has looked at the result of its call and goes on.
Return ==
    /\ halted = "no"
    /\ last.op # "idle"
    /\ last' = Idle
    /\ UNCHANGED <<parent, Flags, Defaults, SubCommands, Stderr, OnError,
                   MinArgs, MaxArgs, halted>>

\* The commands whose limits are assigned between calls, and the values.
LimitNodes == {"foo", "bar"}
MinValues == 0..MaxLimit
MaxValues == {NoArgs} \cup 0..MaxLimit

LookupCmds == {""} \cup Nodes
LookupNames == {"name", "value", "unknown"}

\* The OnError values the program assigns: any on main, and on bar the
\* handler that hands the error back.
PolicyChoices == [n \in PolicyNodes |-> IF n = "main" THEN Handlers ELSE {NIL, "Ident"}]

Next ==
    \/ Ready /\ \E c \in Nodes, args \in ArgVectors : DoRun(c, args)
    \/ Ready /\ \E c \in Nodes, args \in ArgVectors : DoRunSubcommands(c, args)
    \/ Ready /\ \E c \in Nodes, args \in ArgVectors : DoHelp(c, args)
    \/ Ready /\ \E c \in Nodes : DoPrintUsage(c)
    \/ Ready /\ \E c \in Nodes, cmd \in LookupCmds, name \in LookupNames :
                  DoLookup(c, cmd, name)
    \/ Return

Spec == Init /\ [][Next]_vars

\* The same program with OnError assigned between calls.
NextPolicy ==
    \/ Ready /\ \E c \in Nodes, args \in ArgVectors : DoRun(c, args)
    \/ Ready /\ \E c \in Nodes, args \in ArgVectors : DoRunSubcommands(c, args)
    \/ Ready /\ \E c \in PolicyNodes : \E h \in PolicyChoices[c] : SetOnError(c, h)
    \/ Return

SpecPolicy == Init /\ [][NextPolicy]_vars

\* The same program with MinArgs and MaxArgs assigned between calls, and
\* no OnError set.
NextArgs ==
    \/ Ready /\ \E c \in LimitNodes, args \in ArgVectors : DoRun(c, args)
    \/ Ready /\ \E c \in LimitNodes, args \in ArgVectors : DoRunSubcommands(c, args)
    \/ Ready /\ \E c \in LimitNodes, lo \in MinValues, hi \in MaxValues :
                  SetLimits(c, lo, hi)
    \/ Return

SpecArgs == Init /\ [][NextArgs]_vars

\* -------------------------------------------------------- SplitCommand
\* A string is the sequence of its characters, so that prefixes, suffixes
\* and substrings are what they are in Go.
StrictDelim == 0
TrailingDelim == 2
PreceedingDelim == 4
AnyDelim == 8

\* Longest token, and longest token sequence, handed to SplitCommand.
MaxTokLen == 3
MaxSplitLen == 2

Chars == {"x", ";"}
SplitTokens == UNION {[1..n -> Chars] : n \in 0..MaxTokLen}
SplitInputs == UNION {[1..n -> SplitTokens] : n \in 0..MaxSplitLen}
Delims == {<<>>, <<";">>, <<";", ";">>}
OptionValues == {0, 2, 4, 6, 8, 14}

\* options & flag != 0, for a flag that is a power of two.
HasOption(options, flag) == (options \div flag) % 2 = 1

\* strings.HasPrefix, strings.TrimPrefix, strings.HasSuffix, strings.TrimSuffix
HasPrefix(str, prefix) ==
    Len(str) >= Len(prefix) /\ SubSeq(str, 1, Len(prefix)) = prefix
TrimPrefix(str, prefix) ==
    IF HasPrefix(str, prefix) THEN SubSeq(str, Len(prefix) + 1, Len(str)) ELSE str
HasSuffix(str, suffix) ==
    Len(str) >= Len(suffix)
    /\ SubSeq(str, Len(str) - Len(suffix) + 1, Len(str)) = suffix
TrimSuffix(str, suffix) ==
    IF HasSuffix(str, suffix) THEN SubSeq(str, 1, Len(str) - Len(suffix)) ELSE str

\* strings.Index(str, sep) for a non-empty sep, counted from 1; 0 for none.
Index(str, sep) ==
    LET At == {i \in 1..(Len(str) - Len(sep) + 1) : SubSeq(str, i, i + Len(sep) - 1) = sep}
    IN IF At = {} THEN 0 ELSE CHOOSE i \in At : \A j \in At : i <= j

\* strings.Split(str, sep): the pieces between the occurrences of sep taken
\* from the left; an empty sep splits after every character.
RECURSIVE stringsSplit(_, _)
stringsSplit(str, sep) ==
    IF sep = <<>> THEN [i \in 1..Len(str) |-> <<str[i]>>]
    ELSE IF Index(str, sep) = 0 THEN <<str>>
    ELSE <<SubSeq(str, 1, Index(str, sep) - 1)>>
         \o stringsSplit(SubSeq(str, Index(str, sep) + Len(sep), Len(str)), sep)

\* The loop over the parts of one token under AnyDelim: every part is
\* followed by the delimiter, an empty part is the delimiter alone.
RECURSIVE AnyParts(_, _)
AnyParts(parts, delim) ==
    IF parts = <<>> THEN <<>>
    ELSE (IF Len(Head(parts)) > 0 THEN <<Head(parts), delim>> ELSE <<delim>>)
         \o AnyParts(Tail(parts), delim)

\* Mutant: the suffix is looked for in the token as it was given.
SplitWords_OriginalSuffix(arg, delim, options) ==
    IF arg = delim THEN <<arg>>
    ELSE IF HasOption(options, AnyDelim) THEN AnyParts(stringsSplit(arg, delim), delim)
    ELSE LET pre == HasOption(options, PreceedingDelim) /\ HasPrefix(arg, delim)
             arg1 == IF pre THEN TrimPrefix(arg, delim) ELSE arg
             front == IF pre THEN <<delim>> ELSE <<>>
         IN IF HasOption(options, TrailingDelim) /\ HasSuffix(arg, delim)
            THEN front \o <<TrimSuffix(arg, delim), delim>>
            ELSE front \o <<arg1>>

\* The words one arg contributes in the first loop of SplitCommand.
SplitWords(arg, delim, options) ==
    IF arg = delim THEN <<arg>>
    ELSE IF HasOption(options, AnyDelim) THEN AnyParts(stringsSplit(arg, delim), delim)
    ELSE LET pre == HasOption(options, PreceedingDelim) /\ HasPrefix(arg, delim)
             arg1 == IF pre THEN TrimPrefix(arg, delim) ELSE arg
             front == IF pre THEN <<delim>> ELSE <<>>
         IN IF HasOption(options, TrailingDelim) /\ HasSuffix(arg1, delim)
            THEN front \o <<TrimSuffix(arg1, delim), delim>>
            ELSE front \o <<arg1>>

\* The first loop: args rewritten into words.
RECURSIVE Words(_, _, _)
Words(args, delim, options) ==
    IF args = <<>> THEN <<>>
    ELSE SplitWords(Head(args), delim, options) \o Words(Tail(args), delim, options)

\* The second loop, at index i (from 1) with start and cmds as they stand,
\* and the append after it.
RECURSIVE SplitLoop(_, _, _, _, _)
SplitLoop(args, delim, i, start, cmds) ==
    IF i > Len(args)
    THEN IF start <= Len(args) THEN Append(cmds, SubSeq(args, start, Len(args)))
         ELSE cmds
    ELSE IF args[i] = delim
    THEN SplitLoop(args, delim, i + 1, i + 1,
                   IF i > start THEN Append(cmds, SubSeq(args, start, i - 1)) ELSE cmds)
    ELSE SplitLoop(args, delim, i + 1, start, cmds)

\* SplitCommand(args, delim, options)
SplitCommand(args, delim, options) ==
    SplitLoop(IF options # StrictDelim THEN Words(args, delim, options) ELSE args,
              delim, 1, 1, <<>>)

\* A caller calls SplitCommand(args, delim, options); it touches no Command.
DoSplitCommand(args, delim, options) ==
    /\ Ready
    /\ Commit("SplitCommand", NIL, args,
              [m |-> Machine, err |-> NoErr, ctl |-> "ret"],
              [delim |-> delim, options |-> options,
               cmds |-> SplitCommand(args, delim, options)])

NextSplit ==
    \/ Ready /\ \E args \in SplitInputs, delim \in Delims, options \in OptionValues :
                  DoSplitCommand(args, delim, options)
    \/ Return

SpecSplit == Init /\ [][NextSplit]_vars

\* ---------------------------------------------------------- properties
\* The log of the call the caller has just made, and its positions.
TheLog == last.log
Idx == 1..Len(last.log)
IsCall == last.op \in {"Run", "RunSubcommands"}

HasChildren(c) == SubCommands[c] # <<>>
ChildNames(c) == {SubCommands[c][k] : k \in 1..Len(SubCommands[c])}

\* Position i is the successful parse of a Run of some command.
ParsedOk(i, op) ==
    /\ TheLog[i].ev = "parsed"
    /\ TheLog[i].s = op
    /\ TheLog[i].err.kind = "nil"

RECURSIVE PathOf(_)
PathOf(c) == IF parent[c] = NIL THEN c ELSE PathOf(parent[c]) \o " " \o c

\* The child names of each command, sorted and joined by ", ".
SortedChildren == [n \in Nodes |-> CASE n = "main" -> "bar, foo, help"
                                     [] n = "bar" -> "foo"
                                     [] OTHER -> ""]

RequiredError(c) ==
    UsageError(c, "sub command required {" \o SortedChildren[c] \o "}")

\* C2 as claimed: resolving, by Run or by RunSubcommands, a command that
\* has children and no Func and is left with no tokens after parsing fails
\* with the UsageError "<path>: sub command required {...}", never succeeds.
C2_Original ==
    \A i \in Idx :
        ( /\ ParsedOk(i, "Run") \/ ParsedOk(i, "RunSubcommands")
          /\ HasChildren(TheLog[i].c)
          /\ FuncOf[TheLog[i].c] = NIL
          /\ TheLog[i].args = <<>> )
        => /\ last.err = RequiredError(TheLog[i].c)
           /\ ErrorString(Machine, last.err)
                = PathOf(TheLog[i].c) \o ": sub command required {"
                    \o SortedChildren[TheLog[i].c] \o "}"

\* C2 (amended): RunSubcommands on a command left with no tokens after a
\* successful parse fails with the UsageError whose message is
\* "<path>: sub command required {<child names sorted, joined by ', '>}",
\* and with no OnError set that error is what the caller gets; Run on a
\* command with children, no Func and no tokens left does not fail: it
\* returns nil.
C2_SubcommandRequired ==
    \A i \in Idx :
        LET c == TheLog[i].c IN
        /\ ( ParsedOk(i, "RunSubcommands") /\ TheLog[i].args = <<>> )
           => /\ i + 1 <= Len(TheLog)
              /\ TheLog[i + 1] = Ev("defer", c, <<>>, RequiredError(c), "ret", "")
              /\ last.err = RequiredError(c)
              /\ ErrorString(Machine, last.err)
                   = PathOf(c) \o ": sub command required {" \o SortedChildren[c] \o "}"
        /\ ( /\ ParsedOk(i, "Run")
             /\ HasChildren(c)
             /\ FuncOf[c] = NIL
             /\ TheLog[i].args = <<>> )
           => /\ last.err = NoErr
              /\ i + 1 <= Len(TheLog)
              /\ TheLog[i + 1] = Ev("defer", c, <<>>, NoErr, "ret", "")

\* RunSubcommands on main with no tokens, while main's SubCommands still
\* stand in their declared, unsorted order.
C2_Witness ==
    /\ last.op = "RunSubcommands"
    /\ last.c = "main"
    /\ SubCommands["main"] = <<"foo", "bar", "help">>
    /\ last.err = UsageError("main", "sub command required {bar, foo, help}")

\* Position i is a successful parse after which runsub is given a first
\* token that names no child.
UnknownAt(i) ==
    /\ ParsedOk(i, "Run") \/ ParsedOk(i, "RunSubcommands")
    /\ TheLog[i].args # <<>>
    /\ TheLog[i].s = "RunSubcommands" \/ HasChildren(TheLog[i].c)
    /\ Head(TheLog[i].args) \notin ChildNames(TheLog[i].c)

UnknownError(i) ==
    UsageError(TheLog[i].c, Head(TheLog[i].args) \o ": unknown command")

\* C3 as claimed: an unknown sub-command gives the UsageError
\* "<path>: <token>: unknown command" and help is rendered for the command
\* that did not find the child.
C3_Original ==
    \A i \in Idx :
        UnknownAt(i)
        => /\ last.err = UnknownError(i)
           /\ \E j \in Idx : /\ j > i
                             /\ TheLog[j].ev = "help"
                             /\ TheLog[j].s = TheLog[i].c

\* C3 (amended): an unknown sub-command gives the UsageError of that
\* command with message exactly "<path>: <token>: unknown command"; the
\* call writes nothing and renders no help for it (help is rendered only
\* after a failure of parse), and with no OnError set the error is what
\* the caller gets.
C3_UnknownCommand ==
    \A i \in Idx :
        UnknownAt(i)
        => /\ i + 1 <= Len(TheLog)
           /\ TheLog[i + 1] = Ev("defer", TheLog[i].c, TheLog[i].args,
                                 UnknownError(i), "ret", "")
           /\ last.err = UnknownError(i)
           /\ ErrorString(Machine, last.err)
                = PathOf(TheLog[i].c) \o ": " \o Head(TheLog[i].args)
                    \o ": unknown command"
           /\ ~\E j \in Idx : TheLog[j].ev \in {"write", "help"}

\* main was run on "bar fatal": bar did not find "fatal".
C3_Witness ==
    /\ last.op = "Run"
    /\ last.c = "main"
    /\ last.args = <<"bar", "fatal">>
    /\ last.err = UsageError("bar", "fatal: unknown command")
    /\ ErrorString(Machine, last.err) = "main bar: fatal: unknown command"

\* The cause C4 gives for MinArgs lo, MaxArgs hi and n tokens left.
ClaimedCause(lo, hi, n) ==
    IF hi = NoArgs /\ n # 0 THEN "takes no arguments"
    ELSE IF n < lo THEN "requires at least " \o ToString(lo) \o " arguments"
    ELSE IF hi > 0 /\ n > hi THEN "takes no more than " \o ToString(hi) \o " arguments"
    ELSE ""

\* C4 as claimed: whatever MinArgs and MaxArgs are, a Run left with n
\* tokens after flag parsing fails with the UsageError the precedence
\* (NoArgs, then MinArgs, then MaxArgs) gives, without calling Func or
\* entering a child, and passes validation otherwise.
C4_Original ==
    (last.op = "Run" /\ ~\E j \in Idx : TheLog[j].ev = "write" /\ TheLog[j].by = "flag")
    => \E i \in Idx :
          /\ TheLog[i].ev = "parsed"
          /\ TheLog[i].c = last.c
          /\ LET cause == ClaimedCause(MinArgs[last.c], MaxArgs[last.c],
                                       Len(TheLog[i].args))
             IN IF cause = "" THEN TheLog[i].err = NoErr
                ELSE /\ TheLog[i].err = UsageError(last.c, cause)
                     /\ last.ctl = "ret"
                     /\ last.err = UsageError(last.c, cause)
                     /\ ~\E j \in Idx : TheLog[j].ev \in {"func", "descend"}

\* Some invocation of c in the log was handed a token that gives flag name.
Supplied(log, c, name) ==
    \E j \in 1..Len(log) :
        /\ log[j].ev = "enter"
        /\ log[j].c = c
        /\ \E k \in 1..Len(log[j].args) :
              IsFlag(log[j].args[k]) /\ FlagName(log[j].args[k]) = name

OptFields == {"name", "value"}

\* C5: a command bound through Flags keeps its flag values from call to
\* call: a call in which no invocation of the command is given the flag
\* leaves Flags as it was, Lookup on the command returns the old value
\* afterwards, and every Func that looks main's name up during the call
\* sees the old value.
C5_StickyFlags ==
    [][ \A c \in Nodes :
          ( /\ Defaults[c].nil
            /\ ~Flags[c].nil
            /\ last'.op \in {"Run", "RunSubcommands"}
            /\ ~Supplied(last'.log, c, "name") )
          => /\ Flags'[c] = Flags[c]
             /\ \A f \in OptFields :
                   flagsLookup(Flags[c], f) # NIL
                   => Lookup(Machine, c, "", f)' = flagsLookup(Flags[c], f)
             /\ c = "main" =>
                   \A j \in 1..Len(last'.log) :
                       (last'.log[j].ev = "func" /\ last'.log[j].t # NIL)
                       => last'.log[j].t = Flags[c].name
      ]_vars

\* main holds the name an earlier call gave it, after a Run of main that
\* was not given the flag and in which foo's Func saw the value.
C5_Witness ==
    /\ last.op = "Run"
    /\ last.c = "main"
    /\ ~Supplied(last.log, "main", "name")
    /\ Flags["main"].name = "a"
    /\ \E j \in Idx : /\ TheLog[j].ev = "func"
                      /\ TheLog[j].c = "foo"
                      /\ TheLog[j].t = "a"

\* The flag tokens parse consumes: those in front of the first token that
\* is not a flag.  The only flag of the commands bound through Defaults is
\* name, so the flag is given exactly when args starts with it.
GivesName(args) == args # <<>> /\ Head(args) = "--name=a"

\* C6: a command bound through Defaults is parsed into a fresh copy of
\* Defaults on every invocation: after a call that invoked it, Flags holds
\* the flag's value if that invocation gave the flag and the default
\* otherwise, whatever earlier calls set; its Func saw the same; and
\* Defaults is never modified.
C6_EphemeralDefaults ==
    /\ Defaults = InitDefaults
    /\ \A c \in Nodes :
          ~Defaults[c].nil =>
             \A j \in Idx :
                 (TheLog[j].ev = "enter" /\ TheLog[j].c = c) =>
                    LET want == IF GivesName(TheLog[j].args) THEN "a"
                                ELSE InitDefaults[c].name
                    IN /\ Flags[c] = [InitDefaults[c] EXCEPT !.name = want]
                       /\ \A k \in Idx :
                             (TheLog[k].ev = "func" /\ TheLog[k].c = c)
                             => TheLog[k].s = want

\* foo was run without the flag and its Func saw the default, in a program
\* where a flag given earlier (main's, which is sticky) is still set.
C6_Witness ==
    /\ \E j \in Idx : /\ TheLog[j].ev = "enter"
                      /\ TheLog[j].c = "foo"
                      /\ ~GivesName(TheLog[j].args)
    /\ \E k \in Idx : /\ TheLog[k].ev = "func"
                      /\ TheLog[k].c = "foo"
                      /\ TheLog[k].s = "myname"
    /\ Flags["foo"] = Opts("myname", Undef)
    /\ Flags["main"].name = "a"

\* The chain c, c.parent, c.parent.parent, ...
RECURSIVE Chain(_)
Chain(c) == IF c = NIL THEN <<>> ELSE <<c>> \o Chain(parent[c])

\* The options currently bound to n define the field, and its value.
Defines(n, name) ==
    /\ ~Flags[n].nil
    /\ \/ name = "name" /\ Flags[n].name # Undef
       \/ name = "value" /\ Flags[n].value # Undef
ValueOf(n, name) == IF name = "name" THEN Flags[n].name ELSE Flags[n].value

\* C7: c.Lookup(cmd, name) is the value of name at the first command on
\* c's chain that is named cmd (any command when cmd is empty) and whose
\* options define name; nil when there is none.
C7_Lookup ==
    last.op = "Lookup" =>
        LET ch == Chain(last.c)
            cmd == last.args[1]
            name == last.args[2]
            Q == {k \in 1..Len(ch) : (cmd = "" \/ ch[k] = cmd) /\ Defines(ch[k], name)}
        IN IF Q = {} THEN last.val = NIL
           ELSE \E k \in Q : /\ \A k2 \in Q : k <= k2
                             /\ last.val = ValueOf(ch[k], name)

\* foo, which defines name itself, looked main's name up over bar.
C7_Witness ==
    /\ last.op = "Lookup"
    /\ last.c = "foo"
    /\ last.args = <<"main", "name">>
    /\ Chain("foo") = <<"foo", "bar", "main">>
    /\ Flags["foo"].name = "myname"
    /\ Flags["main"].name = "a"
    /\ last.val = "a"

\* The first command on c's chain that has OnError set, NIL for none.
PolicyOwner(c) ==
    LET ch == Chain(c)
        Q == {k \in 1..Len(ch) : OnError[ch[k]] # NIL}
    IN IF Q = {} THEN NIL
       ELSE ch[CHOOSE k \in Q : \A k2 \in Q : k <= k2]

\* C8: when Run or RunSubcommands on c ends with a non-nil error, the
\* handler called is the OnError of the first command on c's chain that
\* sets one, and it is given that error; when no command on the chain sets
\* one the error is returned as it is; when the result is nil no handler
\* is called.
C8_PolicyResolution ==
    /\ \A i \in Idx :
          (TheLog[i].ev = "defer" /\ TheLog[i].s = "ret") =>
             LET e == TheLog[i]
                 o == PolicyOwner(e.c)
             IN /\ i + 1 <= Len(TheLog)
                /\ (e.err.kind = "nil" \/ o = NIL)
                   => TheLog[i + 1] = Ev("return", e.c, <<>>, e.err, "ret", "")
                /\ (e.err.kind # "nil" /\ o # NIL)
                   => TheLog[i + 1] = Ev("onerror", e.c, e.args, e.err, o, OnError[o])
    /\ \A j \in Idx :
          TheLog[j].ev = "onerror" => (j > 1 /\ TheLog[j - 1].ev = "defer")
    /\ (last.op \in {"Run", "RunSubcommands"} /\ last.ctl = "ret")
       => TheLog[Len(TheLog)] = Ev("return", last.c, <<>>, last.err, "ret", "")

\* main was run and descended over bar, which sets no OnError, into foo,
\* which failed: main's handler was called for foo.
C8_Witness ==
    /\ last.op = "Run"
    /\ last.c = "main"
    /\ OnError["bar"] = NIL
    /\ OnError["main"] # NIL
    /\ Chain("foo") = <<"foo", "bar", "main">>
    /\ \E i \in Idx : /\ TheLog[i].ev = "onerror"
                      /\ TheLog[i].c = "foo"
                      /\ TheLog[i].s = "main"
                      /\ TheLog[i].t = OnError["main"]

\* Position i is where the first error of the call reaches the deferred
\* function, and it is a UsageError.
FailAt(i) ==
    /\ TheLog[i].ev = "defer"
    /\ TheLog[i].err.kind = "usage"
    /\ \A j \in 1..(i - 1) : TheLog[j].ev = "defer" => TheLog[j].err.kind = "nil"

\* The error at i is the one parse returned (a flag or a count failure),
\* not one of runsub.
FromParse(i) ==
    \E k \in 1..(i - 1) : /\ TheLog[k].ev = "parsed"
                          /\ TheLog[k].c = TheLog[i].c
                          /\ TheLog[k].err = TheLog[i].err

\* The writes that reach an output sink (parse's buffer is discarded).
Writes == {j \in Idx : TheLog[j].ev = "write" /\ TheLog[j].s # "buf"}

\* How the call ended under each of the two policies.
Outcome(h) ==
    IF h = "ContinueOnError"
    THEN last.err = NoErr /\ last.ctl = "ret"
    ELSE /\ last.ctl = "exit"
         /\ TheLog[Len(TheLog)].ev = "exit"
         /\ TheLog[Len(TheLog)].s = "1"

BuiltIn == {"ContinueOnError", "ExitOnError"}

\* The error line of the failure at i is written once, by the policy, to
\* the sink the failing command resolves, and nothing else is written.
OnlyTheLine(i) ==
    \E j \in Writes :
        /\ Writes = {j}
        /\ TheLog[j].by = "OnError"
        /\ TheLog[j].t = ErrorString(Machine, TheLog[i].err)
        /\ TheLog[j].s = stderr(Machine, TheLog[i].c)

\* C9 as claimed: with ContinueOnError or ExitOnError resolved, a Run that
\* hits any usage failure writes the error line exactly once and nothing
\* else, then returns nil, respectively calls Exit(1).
C9_Original ==
    last.op = "Run" =>
        \A i \in Idx :
            (FailAt(i) /\ PolicyOwner(TheLog[i].c) # NIL
               /\ OnError[PolicyOwner(TheLog[i].c)] \in BuiltIn)
            => /\ OnlyTheLine(i)
               /\ Outcome(OnError[PolicyOwner(TheLog[i].c)])

\* C9 (amended): with ContinueOnError or ExitOnError resolved, a Run that
\* hits an unknown sub-command writes the error line exactly once and
\* nothing else; a Run that hits a failure of parse (flags or argument
\* count) first writes the error line and the help Help renders when it
\* is called for the failing command, and the policy then writes the error
\* line a second time.  Either way
\* ContinueOnError makes Run return nil and ExitOnError calls Exit(1).
C9_BuiltInPolicies ==
    last.op = "Run" =>
        \A i \in Idx :
            (FailAt(i) /\ PolicyOwner(TheLog[i].c) # NIL
               /\ OnError[PolicyOwner(TheLog[i].c)] \in BuiltIn)
            => LET line == ErrorString(Machine, TheLog[i].err)
                   sink == stderr(Machine, TheLog[i].c)
                   first == CHOOSE j \in Writes : \A k \in Writes : j <= k
                   final == CHOOSE j \in Writes : \A k \in Writes : k <= j
               IN /\ Outcome(OnError[PolicyOwner(TheLog[i].c)])
                  /\ ~FromParse(i) => OnlyTheLine(i)
                  /\ FromParse(i) =>
                        /\ Writes # {}
                        /\ first < final
                        /\ TheLog[first].by = "Run"
                        /\ TheLog[first].t = line
                        /\ TheLog[first].s = sink
                        /\ TheLog[final].by = "OnError"
                        /\ TheLog[final].t = line
                        /\ TheLog[final].s = sink
                        /\ \A j \in Writes \ {first, final} : TheLog[j].by = "auto"
                        /\ \E j \in Idx : /\ first < j
                                          /\ j < final
                                          /\ TheLog[j].ev = "help"
                                          /\ TheLog[j].s = TheLog[i].err.C
                                          /\ TheLog[j].t = "auto"

\* main, with ContinueOnError, was run on "bar --name=a": bar does not
\* define the flag, the line was written by Run and again by the policy,
\* and Run returned nil.
C9_Witness ==
    /\ last.op = "Run"
    /\ last.c = "main"
    /\ last.args = <<"bar", "--name=a">>
    /\ OnError["main"] = "ContinueOnError"
    /\ OnError["bar"] = NIL
    /\ last.err = NoErr
    /\ \E i \in Idx : FailAt(i) /\ FromParse(i) /\ TheLog[i].c = "bar"
    /\ \E j \in Writes : \E k \in Writes :
          /\ j < k
          /\ TheLog[j].by = "Run"
          /\ TheLog[k].by = "OnError"
          /\ TheLog[j].t = "main bar: flag provided but not defined: -name"
          /\ TheLog[k].t = TheLog[j].t

SplitCall == last.op = "SplitCommand"

\* The token as C11 rewrites it: a marker in front for a stripped prefix,
\* a marker behind for a stripped suffix; a delimiter token is the marker.
Rewritten(tok, delim, options) ==
    IF tok = delim THEN <<delim>>
    ELSE LET front == HasOption(options, PreceedingDelim) /\ HasPrefix(tok, delim)
             t1 == IF front THEN SubSeq(tok, Len(delim) + 1, Len(tok)) ELSE tok
             back == HasOption(options, TrailingDelim) /\ HasSuffix(t1, delim)
             t2 == IF back THEN SubSeq(t1, 1, Len(t1) - Len(delim)) ELSE t1
         IN (IF front THEN <<delim>> ELSE <<>>) \o <<t2>>
            \o (IF back THEN <<delim>> ELSE <<>>)

RECURSIVE RewrittenAll(_, _, _)
RewrittenAll(toks, delim, options) ==
    IF toks = <<>> THEN <<>>
    ELSE Rewritten(Head(toks), delim, options)
         \o RewrittenAll(Tail(toks), delim, options)

\* Splitting w at its tokens equal to delim: the maximal runs of other
\* tokens, in their order.
Runs(w, delim) ==
    {r \in (1..Len(w)) \X (1..Len(w)) :
        /\ r[1] <= r[2]
        /\ \A k \in r[1]..r[2] : w[k] # delim
        /\ r[1] = 1 \/ w[r[1] - 1] = delim
        /\ r[2] = Len(w) \/ w[r[2] + 1] = delim}

GroupsOf(w, delim) ==
    [k \in 1..Cardinality(Runs(w, delim)) |->
        LET r == CHOOSE r \in Runs(w, delim) :
                    Cardinality({q \in Runs(w, delim) : q[1] < r[1]}) = k - 1
        IN SubSeq(w, r[1], r[2])]

\* The token neither is the delimiter nor starts or ends with it.
Inner(tok, delim) ==
    tok # delim /\ ~HasPrefix(tok, delim) /\ ~HasSuffix(tok, delim)

\* C11: without AnyDelim, SplitCommand returns the rewritten sequence split
\* at its delimiter tokens: under StrictDelim the tokens as given, else
\* each token with a marker in front for a stripped prefix (PreceedingDelim)
\* and a marker behind for a stripped suffix (TrailingDelim).  A delimiter
\* inside a token never splits, groups keep the order, and no group is
\* empty.
C11_SplitWithoutAny ==
    (SplitCall /\ last.val.options \in {StrictDelim, TrailingDelim, PreceedingDelim,
                                        PreceedingDelim + TrailingDelim})
    => LET delim == last.val.delim
           options == last.val.options
           cmds == last.val.cmds
       IN /\ cmds = GroupsOf(RewrittenAll(last.args, delim, options), delim)
          /\ options = StrictDelim => cmds = GroupsOf(last.args, delim)
          /\ \A g \in 1..Len(cmds) :
                cmds[g] # <<>> /\ \A k \in 1..Len(cmds[g]) : cmds[g][k] # delim
          /\ (last.args # <<>> /\ \A i \in 1..Len(last.args) : Inner(last.args[i], delim))
             => cmds = <<last.args>>

\* "x;x ;x" was split at ';' with both options: the second token gave a
\* marker in front, the delimiter inside the first did not split.
C11_Witness ==
    /\ SplitCall
    /\ last.args = << <<"x", ";", "x">>, <<";", "x">> >>
    /\ last.val.delim = <<";">>
    /\ last.val.options = PreceedingDelim + TrailingDelim
    /\ last.val.cmds = << << <<"x", ";", "x">> >>, << <<"x">> >> >>

\* A word that holds no occurrence of the (non-empty) delimiter.
DelimFree(tok, delim) == tok # <<>> /\ Index(tok, delim) = 0

Before(start, names, k) == IF k = 1 THEN start ELSE names[k - 1]

\* Segment k names no child of what is in front of it.
Missing(start, names, k) ==
    \/ Before(start, names, k) \notin Nodes
    \/ names[k] \notin ChildNames(Before(start, names, k))

\* The error of the walk when segment k is the first that is missing.
WalkError(start, names, k) ==
    LET command == Join(<<start>> \o SubSeq(names, 1, k - 1), " ")
    IN IF ~HasChildren(Before(start, names, k))
       THEN ExecError(command \o " has no subcommands")
       ELSE ExecError(command \o " has no subcommand " \o names[k])

\* The help event e went down e.args from start as Help is to: to the
\* last name when every segment names a child, else it failed at the
\* first segment that does not.
WalkedFrom(e, start) ==
    LET bad == {k \in 1..Len(e.args) : Missing(start, e.args, k)}
    IN IF bad = {}
       THEN /\ e.err = NoErr
            /\ e.c = Before(start, e.args, Len(e.args) + 1)
       ELSE \E k \in bad : /\ \A k2 \in bad : k <= k2
                           /\ e.err = WalkError(start, e.args, k)

\* C13 as claimed: Help on c starts from c when c has children and from
\* c's parent only when c is a leaf.
C13_Original ==
    \A i \in Idx :
        TheLog[i].ev = "help" =>
            WalkedFrom(TheLog[i],
                       IF HasChildren(TheLog[i].s) \/ parent[TheLog[i].s] = NIL
                       THEN TheLog[i].s ELSE parent[TheLog[i].s])

\* C13 (amended): Help on c, explicit or automatic, starts from c's parent
\* whenever c's parent is set, whether c has children or not, and from c
\* itself only when its parent is nil; from there it goes down its args as
\* child names and fails at a segment that names no child or that is below
\* a command without children.  The automatic help after a parse failure
\* of a branch command that was entered by descent renders its parent.
C13_HelpTarget ==
    \A i \in Idx :
        TheLog[i].ev = "help" =>
            WalkedFrom(TheLog[i],
                       IF parent[TheLog[i].s] # NIL
                       THEN parent[TheLog[i].s] ELSE TheLog[i].s)

\* bar, which has children, failed to parse after main descended into it:
\* the automatic help rendered main.
C13_Witness ==
    /\ last.op = "Run"
    /\ last.c = "main"
    /\ HasChildren("bar")
    /\ parent["bar"] = "main"
    /\ \E i \in Idx : /\ TheLog[i].ev = "help"
                      /\ TheLog[i].s = "bar"
                      /\ TheLog[i].t = "auto"
                      /\ TheLog[i].c = "main"
                      /\ TheLog[i].err = NoErr

\* The position where the Run of command c that ends at position j began.
EnteredAt(c, j) ==
    CHOOSE i \in 1..j :
       /\ TheLog[i].ev = "enter"
       /\ TheLog[i].c = c
       /\ \A k \in (i + 1)..j : ~(TheLog[k].ev = "enter" /\ TheLog[k].c = c)

\* C14: the OnError handler is called with the command c, the argument
\* vector Run or RunSubcommands on c was called with (flag tokens
\* included, not the tokens left after flag parsing), and the error.
C14_Original ==
    \A j \in Idx :
       TheLog[j].ev = "onerror" =>
          /\ \E i \in 1..j : TheLog[i].ev = "enter" /\ TheLog[i].c = TheLog[j].c
          /\ TheLog[j].args = TheLog[EnteredAt(TheLog[j].c, j)].args
          /\ TheLog[j].err.kind # "nil"

\* The positions where an OnError handler is called.
HandlerCalls == {j \in Idx : TheLog[j].ev = "onerror"}

\* Position i is where the first error of the call reaches a deferred
\* function, in a command below the one the caller ran.
FailsBelow(i) ==
    /\ TheLog[i].ev = "defer"
    /\ TheLog[i].err.kind # "nil"
    /\ TheLog[i].c # last.c
    /\ \A j \in 1..(i - 1) : TheLog[j].ev = "defer" => TheLog[j].err.kind = "nil"

\* C15: when one Run or RunSubcommands call of the caller fails in a
\* command it descended into, and a handler resolves for that command,
\* a handler is called exactly once during the whole call, whatever it
\* returns.
C15_Original ==
    IsCall =>
       \A i \in Idx :
          (FailsBelow(i) /\ PolicyOwner(TheLog[i].c) # NIL)
             => Cardinality(HandlerCalls) = 1

\* The positions of log where a Run descended into n.
Descents(log, n) ==
    {j \in 1..Len(log) : log[j].ev = "descend" /\ log[j].c = n}

\* The command the last descent into n in log came from.
LastFrom(log, n) ==
    log[CHOOSE j \in Descents(log, n) : \A k \in Descents(log, n) : k <= j].s

\* The command k steps up n's parent chain.
RECURSIVE Up(_, _)
Up(n, k) == IF k = 0 \/ n = NIL THEN n ELSE Up(parent[n], k - 1)

\* C16: a command's parent is nil or a command that lists it among its
\* SubCommands, and following parent from any command reaches nil; a
\* step changes a command's parent only by a descent into it, and after
\* a step that descended into a command its parent is the command the
\* most recent descent came from.
C16_ParentInvariant ==
    /\ [](\A n \in Nodes :
            /\ parent[n] = NIL \/ (parent[n] \in Nodes /\ n \in ChildNames(parent[n]))
            /\ Up(n, Cardinality(Nodes)) = NIL)
    /\ [][\A n \in Nodes :
            IF last'.op \in {"Run", "RunSubcommands"} /\ Descents(last'.log, n) # {}
            THEN parent'[n] = LastFrom(last'.log, n)
            ELSE parent'[n] = parent[n]]_vars

\* main was run and descended into bar and from bar into foo, the child
\* bar shares with main: foo's parent is bar and its chain ends at main.
C16_Witness ==
    /\ last.op = "Run"
    /\ last.c = "main"
    /\ Descents(last.log, "foo") # {}
    /\ LastFrom(last.log, "foo") = "bar"
    /\ parent["foo"] = "bar"
    /\ parent["bar"] = "main"
    /\ parent["main"] = NIL
    /\ "foo" \in ChildNames("main")

\* C17: a call of Help or of PrintUsage leaves every command's
\* SubCommands (their order included), Flags, Defaults, parent and
\* Stderr as they were; a call of Run or RunSubcommands, the automatic
\* help it may render included, changes nothing but parent back-references
\* and option stores.
C17_Original ==
    [][/\ last'.op \in {"Help", "PrintUsage"}
          => UNCHANGED <<SubCommands, Flags, Defaults, parent, Stderr>>
       /\ last'.op \in {"Run", "RunSubcommands"}
          => UNCHANGED <<SubCommands, Stderr>>]_vars

\* The commands whose positional hint the Help logged at j asks for: the
\* command it renders when that has no children, its children otherwise.
Hinted(j) ==
    IF HasChildren(TheLog[j].c) THEN ChildNames(TheLog[j].c) ELSE {TheLog[j].c}

\* C18: with Parameters unset, MinArgs >= 0 and MaxArgs NoArgs, 0 or
\* positive, parameters() returns a hint without a run-time failure, so a
\* Run or RunSubcommands that renders help (after a parse failure) does not
\* panic, whatever MinArgs and MaxArgs its commands have.
C18_Original ==
    IsCall =>
       \A j \in Idx :
          (TheLog[j].ev = "help" /\ TheLog[j].err.kind = "nil") =>
             /\ \A c \in Hinted(j) :
                   (Parameters[c] = "" /\ MinArgs[c] >= 0 /\ MaxArgs[c] >= NoArgs)
                      => ~parameters(c).panic
             /\ last.ctl # "panic"

====
